---- MODULE Spec2Model ----
(***************************************************************************)
(* A model of list-todo.ts (ListToDo27): the phrase translator, the TEF    *)
(* entry assembler, the entry-to-item projection and the item graph        *)
(* resolver (active / shovel-ready / ancestors) with processMain's         *)
(* selection.                                                              *)
(*                                                                         *)
(* Strings are sequences of one-character strings, so that trimming,       *)
(* splitting, case conversion and the regular expressions of the source    *)
(* are computed character by character.                                    *)
(***************************************************************************)
EXTENDS Integers, Sequences, FiniteSets, TLC

VARIABLES
    phrases,      \* PhraseTranslator.phrases : key string -> Phrase
    registered,   \* history: the Phrase records addEnglish has stored
    calls,        \* the number of calls made on the phrase translator
    pieces,       \* the TEF pieces not yet consumed by tefPiecesToEntries
    currentEntry, \* tefPiecesToEntries' currentEntry
    consumed,     \* history: the TEF pieces consumed so far
    projected,    \* history: the entries handed to tefEntryToItem, in order
    items,        \* processMain's items : item id -> Item
    itemOrder,    \* the insertion order of items' keys (a Map iterates in it)
    pc,           \* where the run is
    result        \* the outcome of the last operation

vars == <<phrases, registered, calls, pieces, currentEntry, consumed, projected, items, itemOrder, pc, result>>

----------------------------------------------------------------------------
(* Strings *)

\* JavaScript's undefined, where a string may be absent
Undefined == <<"<undefined>">>

LowerCaseLetters ==
    <<"a","b","c","d","e","f","g","h","i","j","k","l","m",
      "n","o","p","q","r","s","t","u","v","w","x","y","z">>

UpperCaseLetters ==
    <<"A","B","C","D","E","F","G","H","I","J","K","L","M",
      "N","O","P","Q","R","S","T","U","V","W","X","Y","Z">>

Range(f) == { f[i] : i \in DOMAIN f }

Digits == {"0","1","2","3","4","5","6","7","8","9"}

\* \s of a JavaScript regular expression, and the characters trim() strips
SpaceChars == {" ", "\t", "\n", "\r"}

IsSpace(c) == c \in SpaceChars

\* \w of a JavaScript regular expression
WordChars == Range(LowerCaseLetters) \cup Range(UpperCaseLetters) \cup Digits \cup {"_"}

IsWordChar(c) == c \in WordChars

toLowerCaseChar(c) ==
    IF \E i \in DOMAIN UpperCaseLetters : UpperCaseLetters[i] = c
    THEN LowerCaseLetters[CHOOSE i \in DOMAIN UpperCaseLetters : UpperCaseLetters[i] = c]
    ELSE c

toUpperCaseChar(c) ==
    IF \E i \in DOMAIN LowerCaseLetters : LowerCaseLetters[i] = c
    THEN UpperCaseLetters[CHOOSE i \in DOMAIN LowerCaseLetters : LowerCaseLetters[i] = c]
    ELSE c

toLowerCase(s) == [i \in DOMAIN s |-> toLowerCaseChar(s[i])]

\* String.prototype.trim
RECURSIVE trimStart(_)
trimStart(s) == IF s # <<>> /\ IsSpace(Head(s)) THEN trimStart(Tail(s)) ELSE s

RECURSIVE trimEnd(_)
trimEnd(s) ==
    IF s # <<>> /\ IsSpace(s[Len(s)]) THEN trimEnd(SubSeq(s, 1, Len(s) - 1)) ELSE s

trim(s) == trimEnd(trimStart(s))

\* String.prototype.split with a one-character separator
RECURSIVE splitOn(_, _, _)
splitOn(s, sep, cur) ==
    IF s = <<>> THEN <<cur>>
    ELSE IF Head(s) = sep THEN <<cur>> \o splitOn(Tail(s), sep, <<>>)
    ELSE splitOn(Tail(s), sep, Append(cur, Head(s)))

\* Array.prototype.join
RECURSIVE join(_, _)
join(list, sep) ==
    IF list = <<>> THEN <<>>
    ELSE IF Len(list) = 1 THEN list[1]
    ELSE list[1] \o sep \o join(Tail(list), sep)

\* str.split(/[,\s]+/): the pieces between the runs of commas and whitespace,
\* an empty piece included where the string starts or ends with a run
IsListSeparator(c) == c = "," \/ IsSpace(c)

RECURSIVE skipListSeparators(_)
skipListSeparators(s) ==
    IF s # <<>> /\ IsListSeparator(Head(s)) THEN skipListSeparators(Tail(s)) ELSE s

RECURSIVE splitList(_, _)
splitList(s, cur) ==
    IF s = <<>> THEN <<cur>>
    ELSE IF IsListSeparator(Head(s))
         THEN <<cur>> \o splitList(skipListSeparators(s), <<>>)
         ELSE splitList(Tail(s), Append(cur, Head(s)))

strToList(str) ==
    IF str = Undefined THEN <<>>
    ELSE IF Len(trim(str)) = 0 THEN <<>>
    ELSE splitList(trim(str), <<>>)

----------------------------------------------------------------------------
(* Outcomes of a call: it returns a value, throws an Error, or recurses     *)
(* without bound (a call that needs its own result never returns: the       *)
(* engine ends it with a stack overflow).                                   *)

Returned(v) ==
    [kind |-> "return", value |-> v, message |-> "", missing |-> Undefined, by |-> Undefined]

\* `v` is what the call had built when it threw
Thrown(v, message, missing, by) ==
    [kind |-> "throw", value |-> v, message |-> message, missing |-> missing, by |-> by]

Overflowed(v) ==
    [kind |-> "overflow", value |-> v, message |-> "", missing |-> Undefined, by |-> Undefined]

----------------------------------------------------------------------------
(* Phrase translator *)

StrEMail == <<"e","-","m","a","i","l">>
StrEmail == <<"e","m","a","i","l">>
StrDescription == <<"d","e","s","c","r","i","p","t","i","o","n">>

\* Map.prototype.set: a new key is added, the value of a present key replaced
MapSet(map, k, v) == [x \in DOMAIN map \cup {k} |-> IF x = k THEN v ELSE map[x]]

\* w.charAt(0).toUpperCase() + w.substring(1)
capitalize(w) == IF w = <<>> THEN <<>> ELSE <<toUpperCaseChar(w[1])>> \o Tail(w)

lcWordsOf(english) ==
    LET words == splitOn(english, " ", <<>>)
    IN  [i \in DOMAIN words |-> toLowerCase(IF words[i] = StrEMail THEN StrEmail ELSE words[i])]

\* the Phrase addEnglish builds for an english string
ccWordsOf(lcWords) ==
    [i \in DOMAIN lcWords |-> IF i = 1 THEN lcWords[i] ELSE capitalize(lcWords[i])]

phraseOfWords(english, lcWords) ==
    [english |-> english,
     camelCase |-> join(ccWordsOf(lcWords), <<>>),
     dashSeparated |-> join(lcWords, <<"-">>)]

phraseOf(english) == phraseOfWords(english, lcWordsOf(english))

\* PhraseTranslator.addEnglish: the phrases map after the call
\* the three this.phrases.set of addEnglish
setPhrase(map, phrase) ==
    MapSet(MapSet(MapSet(map, phrase.english, phrase),
                  phrase.camelCase, phrase),
           phrase.dashSeparated, phrase)

addEnglish(map, english) ==
    IF english \in DOMAIN map THEN map ELSE setPhrase(map, phraseOf(english))

\* PhraseTranslator.addDashed
addDashed(map, dashed) == addEnglish(map, join(splitOn(dashed, "-", <<>>), <<" ">>))

\* PhraseTranslator.get
get(map, phraseStr) ==
    IF phraseStr \in DOMAIN map THEN Returned(map[phraseStr])
    ELSE Thrown(Undefined, "not in phrase database", phraseStr, Undefined)

toDashSeparated(map, phraseStr) ==
    IF phraseStr \in DOMAIN map THEN Returned(map[phraseStr].dashSeparated)
    ELSE get(map, phraseStr)

toCamelCase(map, phraseStr) ==
    IF phraseStr \in DOMAIN map THEN Returned(map[phraseStr].camelCase)
    ELSE get(map, phraseStr)

\* the records stored by a call that changed the map from `before` to `after`
Stored(before, after) == { after[k] : k \in { x \in DOMAIN after : x \notin DOMAIN before } }

\* the module's translator: new PhraseTranslator(), addEnglish('description')
InitialPhrases == addEnglish(<< >>, StrDescription)

----------------------------------------------------------------------------
(* Items *)

\* the field names of an Item, as the camelCase keys the projection computes
StrIdString == <<"i","d","S","t","r","i","n","g">>
StrTypeString == <<"t","y","p","e","S","t","r","i","n","g">>
StrTitle == <<"t","i","t","l","e">>
StrSubtaskOf == <<"s","u","b","t","a","s","k","O","f">>
StrDependsOn == <<"d","e","p","e","n","d","s","O","n">>
StrStatus == <<"s","t","a","t","u","s">>

\* item[k], undefined when the item has no field k
Field(item, k) == IF k \in DOMAIN item THEN item[k] ELSE Undefined

----------------------------------------------------------------------------
(* Raw entries and their projection to items *)

\* makeBlankTefEntry
makeBlankTefEntry == [typeString |-> <<>>, idString |-> <<>>, headers |-> <<>>, contentChunks |-> <<>>]

tefEntryIsEmpty(entry) ==
    IF Len(entry.typeString) > 0 THEN FALSE
    ELSE IF Len(entry.idString) > 0 THEN FALSE
    ELSE IF Len(entry.headers) > 0 THEN FALSE
    ELSE IF Len(entry.contentChunks) > 0 THEN FALSE
    ELSE TRUE

\* the characters `.` of a regular expression does not match
LineTerminators == {"\n", "\r"}

\* (.*) at the start of s: the characters up to the first line terminator
RECURSIVE dotStar(_)
dotStar(s) ==
    IF s = <<>> \/ Head(s) \in LineTerminators THEN <<>>
    ELSE <<Head(s)>> \o dotStar(Tail(s))

AllIn(s, from, to, chars) == \A i \in from..to : s[i] \in chars

NoneIn(s, from, to, chars) == \A i \in from..to : s[i] \notin chars

\* the ways /^\s*(\S+)\s+(?:-\s+|#\s+)?/ matches a prefix of s: <<a, b, c, d>>
\* for a characters of \s*, b of (\S+), c of \s+ and, when the optional group
\* takes part, its '-' or '#' with d >= 1 characters of \s+ (d = 0: no group)
idPrefixMatches(s) ==
    LET n == Len(s)
    IN  { m \in (0..n) \X (1..n) \X (1..n) \X (0..n) :
            /\ m[1] + m[2] + m[3] + m[4] <= n
            /\ AllIn(s, 1, m[1], SpaceChars)
            /\ NoneIn(s, m[1] + 1, m[1] + m[2], SpaceChars)
            /\ AllIn(s, m[1] + m[2] + 1, m[1] + m[2] + m[3], SpaceChars)
            /\ m[4] > 0 =>
                  /\ m[1] + m[2] + m[3] + 1 + m[4] <= n
                  /\ s[m[1] + m[2] + m[3] + 1] \in {"-", "#"}
                  /\ AllIn(s, m[1] + m[2] + m[3] + 2, m[1] + m[2] + m[3] + 1 + m[4],
                           SpaceChars) }

\* m is tried before k: every quantifier is greedy, and the optional group is
\* tried before its absence
TriedBefore(m, k) ==
    \E i \in 1..4 : m[i] > k[i] /\ \A j \in 1..(i - 1) : m[j] = k[j]

\* the match the backtracking search reaches first
firstTried(matches) ==
    CHOOSE x \in matches : \A y \in matches \ {x} : TriedBefore(x, y)

\* a slip: the line is not trimmed on the left before the ID is taken
idGroupsUntrimmed(s, m) ==
    LET rest == m[1] + m[2] + m[3] + (IF m[4] > 0 THEN 1 + m[4] ELSE 0)
    IN  [matched |-> TRUE,
         id |-> SubSeq(s, 1, m[1] + m[2]),
         title |-> dotStar(SubSeq(s, rest + 1, Len(s)))]

\* the result of a match m of the prefix: the groups (\S+) and (.*), which
\* matches wherever it is tried
idGroups(s, m) ==
    LET rest == m[1] + m[2] + m[3] + (IF m[4] > 0 THEN 1 + m[4] ELSE 0)
    IN  [matched |-> TRUE,
         id |-> SubSeq(s, m[1] + 1, m[1] + m[2]),
         title |-> dotStar(SubSeq(s, rest + 1, Len(s)))]

idExecOf(s, matches) ==
    IF matches = {} THEN [matched |-> FALSE, id |-> <<>>, title |-> <<>>]
    ELSE idGroups(s, firstTried(matches))

\* /^\s*(\S+)\s+(?:-\s+|#\s+)?(.*)/.exec(idString)
idExec(s) == idExecOf(s, idPrefixMatches(s))

\* obj[k] = v
SetField(obj, k, v) == [x \in DOMAIN obj \cup {k} |-> IF x = k THEN v ELSE obj[x]]

SetFieldIf(cond, obj, k, v) == IF cond THEN SetField(obj, k, v) ELSE obj

\* the ID and title part of tefEntryToItem
idAndTitleOf(idString, m) ==
    LET effectiveIdString == IF m.matched THEN m.id ELSE idString
        effectiveTitleString == IF m.matched THEN m.title ELSE <<>>
    IN  SetFieldIf(effectiveTitleString # <<>>, 
                   SetFieldIf(effectiveIdString # <<>>, << >>, StrIdString, effectiveIdString),
                   StrTitle, effectiveTitleString)

idAndTitle(idString) == idAndTitleOf(idString, idExec(idString))

\* value = obj[ccKey] ?? ""; if( value.length > 0 ) value += "\n";
\* obj[ccKey] = value + header.value.trim()
addHeaderValue(obj, ccKey, headerValue) ==
    SetField(obj, ccKey,
             (IF Field(obj, ccKey) = Undefined THEN <<>>
              ELSE IF Len(obj[ccKey]) > 0 THEN obj[ccKey] \o <<"\n">>
              ELSE obj[ccKey])
             \o trim(headerValue))

\* the loop of tefEntryToItem over the headers: the object, the phrases map
\* and whether a lookup threw
RECURSIVE projectHeaders(_, _, _, _)

\* one header, after phraseTranslator.addDashed(header.key) gave the map `added`
projectHeader(headers, i, obj, added, ccKey) ==
    IF ccKey.kind # "return" THEN [obj |-> obj, phrases |-> added, out |-> ccKey]
    ELSE IF headers[i].value = <<>> THEN projectHeaders(headers, i + 1, obj, added)
    ELSE projectHeaders(headers, i + 1, addHeaderValue(obj, ccKey.value, headers[i].value),
                        added)

projectHeaderIn(headers, i, obj, added) ==
    projectHeader(headers, i, obj, added, toCamelCase(added, headers[i].key))

projectHeaders(headers, i, obj, map) ==
    IF i > Len(headers) THEN [obj |-> obj, phrases |-> map, out |-> Returned(obj)]
    ELSE projectHeaderIn(headers, i, obj, addDashed(map, headers[i].key))

\* the characters of all chunks (the chunks are bytes of ASCII text, which
\* TextDecoder decodes one to one)
RECURSIVE concatChunks(_)
concatChunks(chunks) ==
    IF chunks = <<>> THEN <<>> ELSE Head(chunks) \o concatChunks(Tail(chunks))

\* the content of an entry, decoded and set as the item's description
withDescription(h, contentChunks) ==
    IF h.out.kind # "return" THEN h
    ELSE IF Len(concatChunks(contentChunks)) = 0 THEN h
    ELSE [obj |-> SetField(h.obj, StrDescription, concatChunks(contentChunks)),
          phrases |-> h.phrases,
          out |-> Returned(SetField(h.obj, StrDescription, concatChunks(contentChunks)))]

\* tefEntryToItem(e) with the module's phraseTranslator holding `map`: the
\* item (out.value), or the error thrown, and the phrases map afterwards
tefEntryToItem(e, map) ==
    withDescription(projectHeaders(e.headers, 1,
                                   SetFieldIf(e.typeString # <<>>, idAndTitle(e.idString),
                                              StrTypeString, e.typeString),
                                   map),
                    e.contentChunks)

----------------------------------------------------------------------------
(* Status *)

RECURSIVE statusRun(_)
statusRun(s) ==
    IF s # <<>> /\ (IsWordChar(Head(s)) \/ Head(s) = "-")
    THEN <<Head(s)>> \o statusRun(Tail(s))
    ELSE <<>>

\* /^([\w-_]+)/
parseStatus(status) == IF statusRun(status) = <<>> THEN Undefined ELSE statusRun(status)

itemStatus(item) ==
    IF Field(item, StrStatus) = Undefined THEN Undefined ELSE parseStatus(item[StrStatus])

StrTodo == <<"t","o","d","o">>
StrInProgress == <<"i","n","-","p","r","o","g","r","e","s","s">>
StrDone == <<"d","o","n","e">>
StrCancelled == <<"c","a","n","c","e","l","l","e","d">>
StrTabled == <<"t","a","b","l","e","d">>

\* a slip: 'tabled' is missing from the inactive keywords
isActiveStatusWithoutTabled(status) ==
    IF status \in {StrTodo, StrInProgress} THEN "true"
    ELSE IF status \in {StrDone, StrCancelled} THEN "false"
    ELSE "undefined"

\* "true" | "false" | "undefined"
isActiveStatus(status) ==
    IF status \in {StrTodo, StrInProgress} THEN "true"
    ELSE IF status \in {StrDone, StrCancelled, StrTabled} THEN "false"
    ELSE "undefined"

----------------------------------------------------------------------------
(* Graph resolver.  `stack` is the set of items whose evaluation is in      *)
(* progress: the functions are deterministic, so a call for an item that is *)
(* already on the stack repeats itself without end.                         *)

RECURSIVE itemIsActiveOn(_, _, _)

\* the loop over parentIds and the final return of _itemIsActive
RECURSIVE anyParentIsActive(_, _, _, _)
anyParentIsActive(parentIds, i, theItems, stack) ==
    IF i > Len(parentIds) THEN Returned(Len(parentIds) = 0)
    ELSE LET r == itemIsActiveOn(parentIds[i], theItems, stack)
         IN  IF r.kind # "return" THEN r
             ELSE IF r.value THEN Returned(TRUE)
             ELSE anyParentIsActive(parentIds, i + 1, theItems, stack)

\* _itemIsActive (the warning about an unrecognized status changes nothing)
itemIsActiveInner(item, theItems, itemId, stack) ==
    LET explicitlyActive == isActiveStatus(itemStatus(item))
    IN  IF explicitlyActive # "undefined" THEN Returned(explicitlyActive = "true")
        ELSE anyParentIsActive(strToList(Field(item, StrSubtaskOf)), 1, theItems,
                               stack \cup {itemId})

itemIsActiveOn(itemId, theItems, stack) ==
    IF itemId \notin DOMAIN theItems
    THEN Thrown(FALSE, "itemIsActive: No such item", itemId, Undefined)
    ELSE IF itemId \in stack THEN Overflowed(FALSE)
    ELSE itemIsActiveInner(theItems[itemId], theItems, itemId, stack)

itemIsActive(itemId, theItems) == itemIsActiveOn(itemId, theItems, {})

\* the loop over the dependencies and the final return of itemIsShovelReady
RECURSIVE allDependenciesDone(_, _, _, _)
allDependenciesDone(depIds, i, itemId, theItems) ==
    IF i > Len(depIds) THEN Returned(TRUE)
    ELSE IF depIds[i] \notin DOMAIN theItems
    THEN Thrown(FALSE, "Item referenced by item undefined", depIds[i], itemId)
    ELSE IF itemStatus(theItems[depIds[i]]) = StrDone
    THEN allDependenciesDone(depIds, i + 1, itemId, theItems)
    ELSE LET d == itemIsActiveInner(theItems[depIds[i]], theItems, depIds[i], {})
         IN  IF d.kind # "return" THEN d
             ELSE [Returned(FALSE) EXCEPT
                      !.message = IF d.value THEN "" ELSE "warning: depends on inactive item"]

\* a slip: the activity of the item itself is not asked
itemIsShovelReadyWhateverItsStatus(itemId, theItems) ==
    IF itemId \notin DOMAIN theItems
    THEN Thrown(FALSE, "Item undefined", itemId, Undefined)
    ELSE allDependenciesDone(strToList(Field(theItems[itemId], StrDependsOn)),
                             1, itemId, theItems)

\* a slip: the dependencies are looked up before the first one is judged
itemIsShovelReadyLookingUpFirst(itemId, theItems) ==
    IF itemId \notin DOMAIN theItems
    THEN Thrown(FALSE, "Item undefined", itemId, Undefined)
    ELSE LET a == itemIsActiveInner(theItems[itemId], theItems, itemId, {})
             depIds == strToList(Field(theItems[itemId], StrDependsOn))
         IN  IF a.kind # "return" THEN a
             ELSE IF ~a.value THEN Returned(FALSE)
             ELSE IF \E i \in DOMAIN depIds : depIds[i] \notin DOMAIN theItems
             THEN Thrown(FALSE, "Item referenced by item undefined",
                         depIds[CHOOSE i \in DOMAIN depIds :
                                   /\ depIds[i] \notin DOMAIN theItems
                                   /\ \A j \in 1..(i - 1) : depIds[j] \in DOMAIN theItems],
                         itemId)
             ELSE allDependenciesDone(depIds, 1, itemId, theItems)

itemIsShovelReady(itemId, theItems) ==
    IF itemId \notin DOMAIN theItems
    THEN Thrown(FALSE, "Item undefined", itemId, Undefined)
    ELSE LET a == itemIsActiveInner(theItems[itemId], theItems, itemId, {})
         IN  IF a.kind # "return" THEN a
             ELSE IF ~a.value THEN Returned(FALSE)
             ELSE allDependenciesDone(strToList(Field(theItems[itemId], StrDependsOn)),
                                      1, itemId, theItems)

RECURSIVE collectOn(_, _, _, _)

\* the loop over the parents of collectItemAndParentIds
RECURSIVE collectParents(_, _, _, _, _)
collectParents(theItems, parentIds, i, into, stack) ==
    IF i > Len(parentIds) THEN Returned(into)
    ELSE LET r == collectOn(theItems, parentIds[i], into, stack)
         IN  IF r.kind # "return" THEN r
             ELSE collectParents(theItems, parentIds, i + 1, r.value, stack)

\* a slip: an item already collected is not collected again
collectOnce(theItems, itemId, into, stack) ==
    IF itemId \notin DOMAIN theItems
    THEN Thrown(into, "Referenced item not found in items map", itemId, Undefined)
    ELSE IF itemId \in stack THEN Overflowed(into)
    ELSE IF itemId \in Range(into) THEN Returned(into)
    ELSE LET r == collectParents(theItems, strToList(Field(theItems[itemId], StrSubtaskOf)),
                                 1, into, stack \cup {itemId})
         IN  IF r.kind # "return" THEN r ELSE Returned(Append(r.value, itemId))

collectOn(theItems, itemId, into, stack) ==
    IF itemId \notin DOMAIN theItems
    THEN Thrown(into, "Referenced item not found in items map", itemId, Undefined)
    ELSE IF itemId \in stack THEN Overflowed(into)
    ELSE LET r == collectParents(theItems, strToList(Field(theItems[itemId], StrSubtaskOf)),
                                 1, into, stack \cup {itemId})
         IN  IF r.kind # "return" THEN r ELSE Returned(Append(r.value, itemId))

\* the value is `into` after the call
collectItemAndParentIds(theItems, itemId, into) == collectOn(theItems, itemId, into, {})

----------------------------------------------------------------------------
(* Item collections the resolver is run on *)

\* the total number of IDs listed in the relation fields of a collection
MaxRefs == 2

IdA == <<"A">>
IdB == <<"B">>
IdC == <<"C">>

ItemIds == {IdA, IdB, IdC}

\* an ID no collection holds
MissingId == <<"Z">>

StrTask == <<"t","a","s","k">>
StrProject == <<"p","r","o","j","e","c","t">>

\* status fields: the five recognized keywords (some with commentary), an
\* unrecognized keyword, and commentary without a keyword
StatusValues ==
    { StrTodo,
      StrInProgress \o <<" ",";"," ","x">>,
      StrDone \o <<" ","(","2","3",")">>,
      StrCancelled,
      StrTabled \o <<" ","(","f","o","r"," ","n","o","w",")">>,
      <<"b","l","o","c","k","e","d">>,
      <<";"," ","x">> }

\* the item with the fields <<name, value>> whose value is not undefined
MakeItem(fields) ==
    [k \in { f[1] : f \in { x \in fields : x[2] # Undefined } } |->
        (CHOOSE f \in fields : f[1] = k)[2]]

\* an ID list as a relation field holds it
IdListString(ids) == IF ids = <<>> THEN Undefined ELSE join(ids, <<",", " ">>)

NoRefs == [id \in ItemIds |-> [subtaskOf |-> <<>>, dependsOn |-> <<>>]]

\* the relations with at most n listed IDs over the given fields and targets
RECURSIVE RefGraphs(_, _, _)
RefGraphs(n, fields, targets) ==
    IF n = 0 THEN {NoRefs}
    ELSE LET less == RefGraphs(n - 1, fields, targets)
         IN  less \cup { [g EXCEPT ![id][f] = Append(@, t)] :
                           g \in less, id \in ItemIds, f \in fields, t \in targets }

Collection(g, status, type) ==
    [id \in ItemIds |->
        MakeItem({ <<StrIdString, id>>,
                   <<StrTypeString, type[id]>>,
                   <<StrStatus, status[id]>>,
                   <<StrSubtaskOf, IdListString(g[id].subtaskOf)>>,
                   <<StrDependsOn, IdListString(g[id].dependsOn)>> })]

NoResult == [op |-> "none", arg |-> Undefined, out |-> Returned(FALSE)]

Idle ==
    /\ phrases = InitialPhrases
    /\ registered = {phraseOf(StrDescription)}
    /\ calls = 0
    /\ pieces = << >>
    /\ currentEntry = << >>
    /\ consumed = << >>
    /\ projected = << >>

IdleUnchanged == UNCHANGED <<phrases, registered, calls, pieces, currentEntry, consumed, projected>>

----------------------------------------------------------------------------
(* Operations on a loaded collection *)

\* itemIsActive(itemId, items), as the tests call it
IsActiveCall(itemId) ==
    /\ pc = "loaded"
    /\ result' = [op |-> "itemIsActive", arg |-> itemId, out |-> itemIsActive(itemId, items)]
    /\ pc' = "done"
    /\ UNCHANGED <<items, itemOrder>>
    /\ IdleUnchanged

\* itemIsShovelReady(itemId, items), as the tests call it
IsShovelReadyCall(itemId) ==
    /\ pc = "loaded"
    /\ result' = [op |-> "itemIsShovelReady", arg |-> itemId,
                  out |-> itemIsShovelReady(itemId, items)]
    /\ pc' = "done"
    /\ UNCHANGED <<items, itemOrder>>
    /\ IdleUnchanged

\* collectItemAndParentIds(items, itemId, []) 
CollectCall(itemId) ==
    /\ pc = "loaded"
    /\ result' = [op |-> "collectItemAndParentIds", arg |-> itemId,
                  out |-> collectItemAndParentIds(items, itemId, <<>>)]
    /\ pc' = "done"
    /\ UNCHANGED <<items, itemOrder>>
    /\ IdleUnchanged

----------------------------------------------------------------------------
(* isActive: collections with statuses and parents *)

\* the status classes: no status, active, inactive, unrecognized
CoreStatusValues ==
    { Undefined, StrTodo, StrTabled \o <<" ","(","f","o","r"," ","n","o","w",")">>,
      <<"b","l","o","c","k","e","d">> }

NoTypes == [id \in ItemIds |-> Undefined]

NoStatuses == [id \in ItemIds |-> Undefined]

Loaded ==
    /\ itemOrder = <<IdA, IdB, IdC>>
    /\ pc = "loaded"
    /\ result = NoResult
    /\ Idle

\* every status value over the relations with at most one listed parent, and
\* the status classes over the relations with at most MaxRefs listed parents
\* (missing parents and cycles included)
InitActive ==
    /\ \/ \E g \in RefGraphs(1, {"subtaskOf"}, ItemIds \cup {MissingId}) :
          \E status \in [ItemIds -> StatusValues \cup {Undefined}] :
              items = Collection(g, status, NoTypes)
       \/ \E g \in RefGraphs(MaxRefs, {"subtaskOf"}, ItemIds \cup {MissingId}) :
          \E status \in [ItemIds -> CoreStatusValues] :
              items = Collection(g, status, NoTypes)
    /\ Loaded

NextActive == \E itemId \in ItemIds \cup {MissingId} : IsActiveCall(itemId)

SpecActive == InitActive /\ [][NextActive]_vars

----------------------------------------------------------------------------
(* collectWithAncestors: collections with parents only *)

\* the total number of listed parents of a collection given to collectItemAndParentIds
MaxAncestorRefs == 3

InitAncestors ==
    /\ \E g \in RefGraphs(MaxAncestorRefs, {"subtaskOf"}, ItemIds \cup {MissingId}) :
           items = Collection(g, NoStatuses, NoTypes)
    /\ Loaded

NextAncestors == \E itemId \in ItemIds \cup {MissingId} : CollectCall(itemId)

SpecAncestors == InitAncestors /\ [][NextAncestors]_vars

----------------------------------------------------------------------------
(* isShovelReady: collections with statuses, parents and dependencies *)

\* the total number of listed parents and dependencies of a collection given
\* to itemIsShovelReady
MaxReadyRefs == 2

\* the status classes: no status, active, inactive, done
ReadyStatusValues ==
    { Undefined, StrTodo, StrTabled \o <<" ","(","f","o","r"," ","n","o","w",")">>,
      StrDone \o <<" ","(","2","3",")">> }

\* every status value over the relations with at most one listed ID, and the
\* status classes over the relations with at most MaxReadyRefs listed IDs
InitReady ==
    /\ \/ \E g \in RefGraphs(1, {"subtaskOf", "dependsOn"}, ItemIds \cup {MissingId}) :
          \E status \in [ItemIds -> StatusValues \cup {Undefined}] :
              items = Collection(g, status, NoTypes)
       \/ \E g \in RefGraphs(MaxReadyRefs, {"subtaskOf", "dependsOn"},
                              ItemIds \cup {MissingId}) :
          \E status \in [ItemIds -> ReadyStatusValues] :
              items = Collection(g, status, NoTypes)
    /\ Loaded

NextReady == \E itemId \in ItemIds \cup {MissingId} : IsShovelReadyCall(itemId)

SpecReady == InitReady /\ [][NextReady]_vars

----------------------------------------------------------------------------
(* processMain after ingestion: selection and output *)

\* the loop of processMain over the items, in the Map's order
RECURSIVE selectItemIds(_, _, _, _, _)
selectItemIds(selectionMode, theItems, order, i, itemIds) ==
    IF i > Len(order) THEN Returned(itemIds)
    ELSE IF selectionMode = "all"
    THEN selectItemIds(selectionMode, theItems, order, i + 1, Append(itemIds, order[i]))
    ELSE IF selectionMode = "random-shovel-ready-task"
            /\ Field(theItems[order[i]], StrTypeString) # StrTask
    THEN selectItemIds(selectionMode, theItems, order, i + 1, itemIds)
    ELSE LET r == itemIsShovelReady(order[i], theItems)
         IN  IF r.kind # "return" THEN [r EXCEPT !.value = itemIds]
             ELSE selectItemIds(selectionMode, theItems, order, i + 1,
                                IF r.value THEN Append(itemIds, order[i]) ELSE itemIds)

\* the warning of an empty random selection: processMain returns, nothing is output
EmptySelection ==
    [Returned(<<>>) EXCEPT !.message = "warning: No tasks loaded"]

\* the IDs processMain outputs, or how it ends instead.  The comparator of the
\* sort answers at random, so any selected ID may come first.
ProcessSelection(selectionMode) ==
    /\ pc = "loaded"
    /\ LET selected == selectItemIds(selectionMode, items, itemOrder, 1, <<>>)
       IN  \/ /\ selectionMode # "random-shovel-ready-task" \/ selected.kind # "return"
              /\ result' = [op |-> "processMain", arg |-> selectionMode, out |-> selected]
           \/ /\ selectionMode = "random-shovel-ready-task"
              /\ selected.kind = "return"
              /\ selected.value = <<>>
              /\ result' = [op |-> "processMain", arg |-> selectionMode,
                            out |-> EmptySelection]
           \/ /\ selectionMode = "random-shovel-ready-task"
              /\ selected.kind = "return"
              /\ \E k \in DOMAIN selected.value :
                     result' = [op |-> "processMain", arg |-> selectionMode,
                                out |-> collectItemAndParentIds(items, selected.value[k], <<>>)]
    /\ pc' = "done"
    /\ UNCHANGED <<items, itemOrder>>
    /\ IdleUnchanged

SelectionModes == {"all", "shovel-ready", "random-shovel-ready-task"}

\* the total number of listed parents of a collection given to the selection
MaxSelectRefs == 2

SelectStatusValues ==
    { Undefined, StrTabled \o <<" ","(","f","o","r"," ","n","o","w",")">>,
      StrDone \o <<" ","(","2","3",")">> }

\* tasks and projects: the status classes over the relations with at most one
\* listed parent or dependency, and fewer status classes over the relations with
\* at most MaxSelectRefs listed parents
InitSelect ==
    /\ \/ \E g \in RefGraphs(1, {"subtaskOf", "dependsOn"}, ItemIds \cup {MissingId}) :
          \E status \in [ItemIds -> ReadyStatusValues] :
          \E type \in [ItemIds -> {StrTask, StrProject}] :
              items = Collection(g, status, type)
       \/ \E g \in RefGraphs(MaxSelectRefs, {"subtaskOf"}, ItemIds \cup {MissingId}) :
          \E status \in [ItemIds -> SelectStatusValues] :
          \E type \in [ItemIds -> {StrTask, StrProject}] :
              items = Collection(g, status, type)
    /\ Loaded

NextSelect == \E selectionMode \in SelectionModes : ProcessSelection(selectionMode)

SpecSelect == InitSelect /\ [][NextSelect]_vars

----------------------------------------------------------------------------
(* Calls on the phrase translator *)

\* the longest key given to the phrase translator
MaxKeyLen == 3

\* the number of calls made on the phrase translator
MaxCalls == 2

KeyAlphabet == {"a", "A", " ", "-"}

\* the sequences of at most n elements
ListsUpTo(elements, n) == UNION { [1..k -> elements] : k \in 0..n }

StringsUpTo(alphabet, n) == ListsUpTo(alphabet, n)

IsKeySeparator(c) == c \in {" ", "-"}

\* words, none empty, with one space or dash between them
WellFormedKey(str) ==
    /\ str # <<>>
    /\ ~IsKeySeparator(str[1])
    /\ ~IsKeySeparator(str[Len(str)])
    /\ \A i \in 1..(Len(str) - 1) : ~(IsKeySeparator(str[i]) /\ IsKeySeparator(str[i + 1]))

\* header keys and phrases: the short well-formed strings of letters of both
\* cases, spaces and dashes, and the word addEnglish treats specially
Keys == { str \in StringsUpTo(KeyAlphabet, MaxKeyLen) : WellFormedKey(str) } \cup {StrEMail}

NotIngesting ==
    /\ pieces = << >>
    /\ currentEntry = << >>
    /\ consumed = << >>
    /\ projected = << >>
    /\ items = << >>
    /\ itemOrder = << >>

NotIngestingUnchanged == UNCHANGED <<pieces, currentEntry, consumed, projected, items, itemOrder>>

AddEnglishCall(english) ==
    /\ calls < MaxCalls
    /\ phrases' = addEnglish(phrases, english)
    /\ registered' = registered \cup Stored(phrases, phrases')
    /\ calls' = calls + 1
    /\ result' = [op |-> "addEnglish", arg |-> english, out |-> Returned(FALSE)]
    /\ UNCHANGED pc
    /\ NotIngestingUnchanged

AddDashedCall(dashed) ==
    /\ calls < MaxCalls
    /\ phrases' = addDashed(phrases, dashed)
    /\ registered' = registered \cup Stored(phrases, phrases')
    /\ calls' = calls + 1
    /\ result' = [op |-> "addDashed", arg |-> dashed, out |-> Returned(FALSE)]
    /\ UNCHANGED pc
    /\ NotIngestingUnchanged

\* what tefEntryToItem does with a header key: addDashed, then toCamelCase
HeaderKeyCall(key) ==
    /\ calls < MaxCalls
    /\ phrases' = addDashed(phrases, key)
    /\ registered' = registered \cup Stored(phrases, phrases')
    /\ calls' = calls + 1
    /\ result' = [op |-> "toCamelCase", arg |-> key, out |-> toCamelCase(phrases', key)]
    /\ UNCHANGED pc
    /\ NotIngestingUnchanged

InitPhrase ==
    /\ phrases = InitialPhrases
    /\ registered = {phraseOf(StrDescription)}
    /\ calls = 0
    /\ pc = "translating"
    /\ result = NoResult
    /\ NotIngesting

NextPhrase ==
    \E key \in Keys : AddEnglishCall(key) \/ AddDashedCall(key) \/ HeaderKeyCall(key)

SpecPhrase == InitPhrase /\ [][NextPhrase]_vars

----------------------------------------------------------------------------
(* tefEntryToItem on one raw entry *)

\* the longest raw ID line
MaxIdLen == 5

\* the number of headers of an entry
MaxHeaders == 2

IdAlphabet == {"a", " ", "-", "#"}

HeaderKeys == {StrStatus, <<"s","u","b","t","a","s","k","-","o","f">>}

\* header values: empty, whitespace only, plain, and to be trimmed
HeaderValues == {<<>>, <<" ">>, <<"x">>, <<" ","y"," ">>}

Headers == { [key |-> k, value |-> v] : k \in HeaderKeys, v \in HeaderValues }

ChunkLists ==
    { <<>>, << <<>> >>, << <<"f","o","o","\n">> >>,
      << <<"f","o","o","\n">>, <<"b","a","r","\n">> >> }

\* the entries with a raw ID line of at most MaxIdLen characters, and the
\* entries with at most MaxHeaders headers and some content
InitProject ==
    /\ \/ \E idString \in StringsUpTo(IdAlphabet, MaxIdLen) :
          \E typeString \in {<<>>, StrTask} :
              currentEntry = [typeString |-> typeString, idString |-> idString,
                              headers |-> <<>>, contentChunks |-> <<>>]
       \/ \E headers \in ListsUpTo(Headers, MaxHeaders) :
          \E contentChunks \in ChunkLists :
              currentEntry = [typeString |-> StrTask, idString |-> <<"a">>,
                              headers |-> headers, contentChunks |-> contentChunks]
    /\ phrases = InitialPhrases
    /\ registered = {phraseOf(StrDescription)}
    /\ calls = 0
    /\ pieces = << >>
    /\ consumed = << >>
    /\ projected = << >>
    /\ items = << >>
    /\ itemOrder = << >>
    /\ pc = "assembled"
    /\ result = NoResult

ProjectedAs(p) ==
    /\ result' = [op |-> "tefEntryToItem", arg |-> currentEntry.idString, out |-> p.out]
    /\ phrases' = p.phrases
    /\ registered' = registered \cup Stored(phrases, p.phrases)

\* tefEntryToItem(currentEntry)
ProjectCall ==
    /\ pc = "assembled"
    /\ ProjectedAs(tefEntryToItem(currentEntry, phrases))
    /\ projected' = Append(projected, currentEntry)
    /\ pc' = "done"
    /\ UNCHANGED <<calls, pieces, currentEntry, consumed, items, itemOrder>>

NextProject == ProjectCall

SpecProject == InitProject /\ [][NextProject]_vars

----------------------------------------------------------------------------
(* Ingestion: tefPiecesToEntries and the loop of processMain over its entries *)

\* the length of the piece stream
MaxPieces == 4

NewEntry(typeString, idString) ==
    [type |-> "new-entry", typeString |-> typeString, idString |-> idString]

Pieces ==
    { NewEntry(StrTask, IdA), NewEntry(StrTask, IdB), NewEntry(<<>>, <<>>),
      [type |-> "comment"],
      [type |-> "content-chunk", data |-> <<"f","o","o","\n">>],
      [type |-> "header", key |-> StrStatus, value |-> StrDone] }

InitIngest ==
    /\ pieces \in ListsUpTo(Pieces, MaxPieces)
    /\ consumed = << >>
    /\ currentEntry = makeBlankTefEntry
    /\ projected = << >>
    /\ phrases = InitialPhrases
    /\ registered = {phraseOf(StrDescription)}
    /\ calls = 0
    /\ items = << >>
    /\ itemOrder = << >>
    /\ pc = "ingesting"
    /\ result = NoResult

\* the piece the loop of tefPiecesToEntries takes next
Consume ==
    /\ pc = "ingesting"
    /\ pieces # << >>
    /\ pieces' = Tail(pieces)
    /\ consumed' = Append(consumed, Head(pieces))

\* the body of processMain's loop for one entry the generator yields
\* if( item.idString ) items.set(item.idString, item)
SetItem(item) ==
    IF Field(item, StrIdString) # Undefined
    THEN /\ items' = SetField(items, item[StrIdString], item)
         /\ itemOrder' = IF item[StrIdString] \in DOMAIN items THEN itemOrder
                          ELSE Append(itemOrder, item[StrIdString])
    ELSE UNCHANGED <<items, itemOrder>>

YieldedAs(entry, p) ==
    /\ projected' = Append(projected, entry)
    /\ phrases' = p.phrases
    /\ registered' = registered \cup Stored(phrases, p.phrases)
    /\ IF p.out.kind # "return"
       THEN /\ pc' = "done"
            /\ result' = [op |-> "processMain", arg |-> entry.idString, out |-> p.out]
            /\ UNCHANGED <<items, itemOrder>>
       ELSE /\ pc' = pc
            /\ result' = result
            /\ SetItem(p.out.value)

Yielded(entry) == YieldedAs(entry, tefEntryToItem(entry, phrases))

NewEntryPiece ==
    /\ Consume
    /\ Head(pieces).type = "new-entry"
    /\ \/ /\ ~tefEntryIsEmpty(currentEntry)
          /\ Yielded(currentEntry)
          /\ currentEntry' = [makeBlankTefEntry EXCEPT !.typeString = Head(pieces).typeString,
                                                        !.idString = Head(pieces).idString]
       \/ /\ tefEntryIsEmpty(currentEntry)
          /\ currentEntry' = [currentEntry EXCEPT !.typeString = Head(pieces).typeString,
                                                   !.idString = Head(pieces).idString]
          /\ UNCHANGED <<projected, phrases, registered, items, itemOrder, pc, result>>
    /\ UNCHANGED calls

CommentPiece ==
    /\ Consume
    /\ Head(pieces).type = "comment"
    /\ UNCHANGED <<currentEntry, projected, phrases, registered, calls, items, itemOrder, pc,
                   result>>

ContentChunkPiece ==
    /\ Consume
    /\ Head(pieces).type = "content-chunk"
    /\ currentEntry' = [currentEntry EXCEPT !.contentChunks = Append(@, Head(pieces).data)]
    /\ UNCHANGED <<projected, phrases, registered, calls, items, itemOrder, pc, result>>

HeaderPiece ==
    /\ Consume
    /\ Head(pieces).type = "header"
    /\ currentEntry' = [currentEntry EXCEPT !.headers = Append(@, Head(pieces))]
    /\ UNCHANGED <<projected, phrases, registered, calls, items, itemOrder, pc, result>>

\* the stream ends: the loop of tefPiecesToEntries ends and the generator
\* returns, which ends the loop of processMain
EndOfStream ==
    /\ pc = "ingesting"
    /\ pieces = << >>
    /\ pc' = "loaded"
    /\ UNCHANGED <<pieces, consumed, currentEntry, projected, phrases, registered, calls, items,
                   itemOrder, result>>

NextIngest ==
    \/ NewEntryPiece
    \/ CommentPiece
    \/ ContentChunkPiece
    \/ HeaderPiece
    \/ EndOfStream

SpecIngest == InitIngest /\ [][NextIngest]_vars

----------------------------------------------------------------------------
(* The three traversals on collections whose references all resolve *)

\* the total number of listed parents and dependencies of such a collection
MaxResolveRefs == 2

\* no status (the parents decide), active, done
ResolveStatusValues == { Undefined, StrTodo, StrDone }

\* parents and dependencies among the items, cycles included
InitResolve ==
    /\ \E g \in RefGraphs(MaxResolveRefs, {"subtaskOf", "dependsOn"}, ItemIds) :
       \E status \in [ItemIds -> ResolveStatusValues] :
           items = Collection(g, status, NoTypes)
    /\ Loaded

NextResolve ==
    \E itemId \in ItemIds :
        \/ IsActiveCall(itemId)
        \/ IsShovelReadyCall(itemId)
        \/ CollectCall(itemId)

SpecResolve == InitResolve /\ [][NextResolve]_vars

----------------------------------------------------------------------------
(* strToList on one relation field value *)

\* the longest relation field value
MaxListLen == 4

ListAlphabet == {"A", "B", ",", " "}

\* the values of item.subtaskOf and item.dependsOn: absent, or a string
ListValues == StringsUpTo(ListAlphabet, MaxListLen) \cup {Undefined}

InitList ==
    /\ items = << >>
    /\ itemOrder = << >>
    /\ pc = "listing"
    /\ result = NoResult
    /\ Idle

\* strToList(str), as _itemIsActive, itemIsShovelReady and
\* collectItemAndParentIds call it on a relation field
StrToListCall(str) ==
    /\ pc = "listing"
    /\ result' = [op |-> "strToList", arg |-> str, out |-> Returned(strToList(str))]
    /\ pc' = "done"
    /\ UNCHANGED <<items, itemOrder>>
    /\ IdleUnchanged

NextList == \E str \in ListValues : StrToListCall(str)

SpecList == InitList /\ [][NextList]_vars

----------------------------------------------------------------------------
(* Properties of a collection *)

ParentsOf(theItems, id) == Range(strToList(Field(theItems[id], StrSubtaskOf)))

DependenciesOf(theItems, id) == Range(strToList(Field(theItems[id], StrDependsOn)))

\* every listed parent and dependency is an item of the collection
Resolvable(theItems) ==
    \A id \in DOMAIN theItems :
        ParentsOf(theItems, id) \cup DependenciesOf(theItems, id) \subseteq DOMAIN theItems

\* the items reached from the set `from` in at most n steps of subtaskOf
RECURSIVE AncestorsWithin(_, _, _)
AncestorsWithin(theItems, from, n) ==
    IF n = 0 THEN {}
    ELSE LET up == UNION { ParentsOf(theItems, id) : id \in from \cap DOMAIN theItems }
         IN  up \cup AncestorsWithin(theItems, up, n - 1)

Ancestors(theItems, id) == AncestorsWithin(theItems, {id}, Cardinality(DOMAIN theItems))

\* no item is its own ancestor
Acyclic(theItems) == \A id \in DOMAIN theItems : id \notin Ancestors(theItems, id)

\* the longest prefix of a status made of word characters and hyphens
StatusToken(status) ==
    LET n == CHOOSE k \in 0..Len(status) :
                 /\ \A i \in 1..k : IsWordChar(status[i]) \/ status[i] = "-"
                 /\ k < Len(status) => ~(IsWordChar(status[k + 1]) \/ status[k + 1] = "-")
    IN  SubSeq(status, 1, n)

OwnToken(item) == IF StrStatus \in DOMAIN item THEN StatusToken(item[StrStatus]) ELSE <<>>

----------------------------------------------------------------------------
\* C1: with resolvable references and an acyclic subtaskOf, isActive(itemId) is
\* true for an own status token todo or in-progress, false for done, cancelled
\* or tabled whatever the parents are, and for any other or no token it is
\* true with no parents, true with at least one active listed parent and
\* false with one or more parents none of which is active.
C1_IsActiveDecision ==
    (/\ result.op = "itemIsActive"
     /\ result.arg \in DOMAIN items
     /\ Resolvable(items)
     /\ Acyclic(items))
    => LET token == OwnToken(items[result.arg])
           parents == ParentsOf(items, result.arg)
           expected ==
               IF token \in {StrTodo, StrInProgress} THEN TRUE
               ELSE IF token \in {StrDone, StrCancelled, StrTabled} THEN FALSE
               ELSE IF parents = {} THEN TRUE
               ELSE \E p \in parents : itemIsActive(p, items) = Returned(TRUE)
       IN  result.out = Returned(expected)

\* an item without a status token is found inactive because its parent
\* inherits inactivity from a tabled grandparent
C1_Witness ==
    /\ result.op = "itemIsActive"
    /\ result.arg \in DOMAIN items
    /\ Resolvable(items) /\ Acyclic(items)
    /\ OwnToken(items[result.arg]) = <<>>
    /\ \E p \in ParentsOf(items, result.arg) :
          /\ OwnToken(items[p]) \notin {StrTodo, StrInProgress, StrDone, StrCancelled, StrTabled}
          /\ ParentsOf(items, p) # {}
    /\ result.out = Returned(FALSE)

----------------------------------------------------------------------------
\* the concatenation of collectWithAncestors(parent) over parentIds[i..]
RECURSIVE ConcatCollected(_, _, _)
ConcatCollected(theItems, parentIds, i) ==
    IF i > Len(parentIds) THEN <<>>
    ELSE collectItemAndParentIds(theItems, parentIds[i], <<>>).value
         \o ConcatCollected(theItems, parentIds, i + 1)

\* the number of subtaskOf paths from item `from` up to item `to`, a parent
\* listed twice counting twice (for an acyclic relation)
RECURSIVE PathCount(_, _, _)
RECURSIVE PathCountVia(_, _, _, _)
PathCountVia(theItems, parentIds, i, to) ==
    IF i > Len(parentIds) THEN 0
    ELSE PathCount(theItems, parentIds[i], to) + PathCountVia(theItems, parentIds, i + 1, to)

PathCount(theItems, from, to) ==
    IF from = to THEN 1
    ELSE PathCountVia(theItems, strToList(Field(theItems[from], StrSubtaskOf)), 1, to)

Occurrences(seq, x) == Cardinality({ i \in DOMAIN seq : seq[i] = x })

----------------------------------------------------------------------------
\* C2: with resolvable references, isShovelReady(itemId) returns true exactly
\* when isActive(itemId) is true and every listed dependency is an item whose
\* own status token is exactly 'done' (none listed counts as all done); a
\* dependency with any other token, or none, makes the item not shovel-ready.
C2_ShovelReadyIffActiveAndAllDone ==
    (/\ result.op = "itemIsShovelReady"
     /\ result.arg \in DOMAIN items
     /\ Resolvable(items))
    => ( (result.out.kind = "return" /\ result.out.value)
         <=> /\ itemIsActive(result.arg, items) = Returned(TRUE)
             /\ \A d \in DependenciesOf(items, result.arg) :
                    OwnToken(items[d]) = StrDone )

\* an item that is active only through its parent, and whose dependency is
\* done, is shovel-ready
C2_Witness ==
    /\ result.op = "itemIsShovelReady"
    /\ result.arg \in DOMAIN items
    /\ Resolvable(items)
    /\ OwnToken(items[result.arg]) = <<>>
    /\ ParentsOf(items, result.arg) # {}
    /\ DependenciesOf(items, result.arg) # {}
    /\ result.out = Returned(TRUE)

----------------------------------------------------------------------------
\* the listed dependencies of the called item, and the place of the first one
\* that is not in the collection
CalledDeps == strToList(Field(items[result.arg], StrDependsOn))

FirstMissing ==
    CHOOSE m \in DOMAIN CalledDeps :
        /\ CalledDeps[m] \notin DOMAIN items
        /\ \A i \in 1..(m - 1) : CalledDeps[i] \in DOMAIN items

ActiveWithMissingDependency ==
    /\ result.op = "itemIsShovelReady"
    /\ result.arg \in DOMAIN items
    /\ itemIsActive(result.arg, items) = Returned(TRUE)
    /\ \E d \in DependenciesOf(items, result.arg) : d \notin DOMAIN items

\* C3 as stated: for an active item X with a listed dependency that is absent
\* from the collection, isShovelReady(X) fails with the error naming a missing
\* ID and X, and never returns a boolean.
C3_AlwaysFailsOnMissingDependency ==
    ActiveWithMissingDependency
    => /\ result.out.kind = "throw"
       /\ result.out.missing \in DependenciesOf(items, result.arg) \ DOMAIN items
       /\ result.out.by = result.arg

\* C3 as amended: for an active item X with a listed dependency that is absent
\* from the collection, isShovelReady(X) fails with the error naming the first
\* missing ID and X when every dependency listed before it is done; otherwise
\* it stops at the first listed dependency that is not done and never reaches
\* the missing ID: it returns false, or ends as the evaluation of that
\* dependency's activity ends when that one does not return.
C3_FailsOnMissingDependencyWhenReached ==
    ActiveWithMissingDependency
    => IF \A i \in 1..(FirstMissing - 1) : OwnToken(items[CalledDeps[i]]) = StrDone
       THEN /\ result.out.kind = "throw"
            /\ result.out.missing = CalledDeps[FirstMissing]
            /\ result.out.by = result.arg
       ELSE LET f == CHOOSE i \in 1..(FirstMissing - 1) :
                         /\ OwnToken(items[CalledDeps[i]]) # StrDone
                         /\ \A j \in 1..(i - 1) : OwnToken(items[CalledDeps[j]]) = StrDone
                depActive == itemIsActive(CalledDeps[f], items)
            IN  /\ result.out.by # result.arg
                /\ IF depActive.kind = "return"
                   THEN result.out.kind = "return" /\ ~result.out.value
                   ELSE result.out = depActive

\* the missing dependency is listed after a done one, and the call fails
C3_Witness ==
    /\ ActiveWithMissingDependency
    /\ FirstMissing = 2
    /\ OwnToken(items[CalledDeps[1]]) = StrDone
    /\ result.out.kind = "throw"
    /\ result.out.missing = MissingId
    /\ result.out.by = result.arg

----------------------------------------------------------------------------
\* the items a random pick may take: typeString 'task' and shovel-ready
EligibleTasks ==
    { id \in DOMAIN items :
        /\ Field(items[id], StrTypeString) = StrTask
        /\ itemIsShovelReady(id, items).kind = "return"
        /\ itemIsShovelReady(id, items).value }

RandomSelectionRule ==
    /\ (result.out = EmptySelection) <=> (EligibleTasks = {})
    /\ EligibleTasks # {} =>
          \E t \in EligibleTasks :
              /\ collectItemAndParentIds(items, t, <<>>).kind = "return"
              /\ result.out = collectItemAndParentIds(items, t, <<>>)

\* C7: in random-shovel-ready-task selection over a collection with resolvable
\* references, the selected ID list is empty (warning, no output, normal
\* completion) exactly when no item is a shovel-ready 'task'; otherwise it is
\* collectWithAncestors(t) for one shovel-ready 'task' t.
C7_RandomSelection ==
    (/\ result.op = "processMain"
     /\ result.arg = "random-shovel-ready-task"
     /\ Resolvable(items))
    => RandomSelectionRule

\* the same for the collections whose subtaskOf is acyclic as well
C7_RandomSelectionAcyclic ==
    (/\ result.op = "processMain"
     /\ result.arg = "random-shovel-ready-task"
     /\ Resolvable(items)
     /\ Acyclic(items))
    => RandomSelectionRule

----------------------------------------------------------------------------
\* C8: after any sequence of register/registerDashed calls, for every phrase
\* that has been registered, the lookups under its original spaced form, its
\* compact form and its dash-joined form all resolve to one shared record, so
\* toCompactForm returns the same compact string for all three spellings.
C8_ThreeFormsOneRecord ==
    \A phrase \in registered :
        /\ {phrase.english, phrase.camelCase, phrase.dashSeparated} \subseteq DOMAIN phrases
        /\ phrases[phrase.english] = phrases[phrase.camelCase]
        /\ phrases[phrase.english] = phrases[phrase.dashSeparated]
        /\ toCamelCase(phrases, phrase.english) = toCamelCase(phrases, phrase.camelCase)
        /\ toCamelCase(phrases, phrase.english) = toCamelCase(phrases, phrase.dashSeparated)

\* the part of C8 about the strings alone: the three spellings of a registered
\* phrase have the same compact form
C8_ThreeFormsOneCompactString ==
    \A phrase \in registered :
        /\ toCamelCase(phrases, phrase.english) = toCamelCase(phrases, phrase.camelCase)
        /\ toCamelCase(phrases, phrase.english) = toCamelCase(phrases, phrase.dashSeparated)

\* C10: the phrase cache is append-only: once lookup(k) succeeds, every later
\* registration leaves the record k resolves to unchanged, so toCompactForm(k)
\* and toDashForm(k) return the same strings at every later point.
C10_AppendOnly ==
    [][\A k \in DOMAIN phrases :
          /\ k \in DOMAIN phrases'
          /\ phrases'[k] = phrases[k]
          /\ toCamelCase(phrases', k) = toCamelCase(phrases, k)
          /\ toDashSeparated(phrases', k) = toDashSeparated(phrases, k)]_vars

\* the part of C10 about the strings alone: the compact and dash forms of a
\* key that has been looked up never change
C10_StableForms ==
    [][\A k \in DOMAIN phrases :
          /\ toCamelCase(phrases', k) = toCamelCase(phrases, k)
          /\ toDashSeparated(phrases', k) = toDashSeparated(phrases, k)]_vars

----------------------------------------------------------------------------
Projected == result.op = "tefEntryToItem" /\ result.out.kind = "return"

BlankValue(header) == trim(header.value) = <<>>

\* the headers of a list whose value is not empty after trimming
RECURSIVE WithoutBlankValues(_)
WithoutBlankValues(headers) ==
    IF headers = <<>> THEN <<>>
    ELSE IF BlankValue(Head(headers)) THEN WithoutBlankValues(Tail(headers))
    ELSE <<Head(headers)>> \o WithoutBlankValues(Tail(headers))

\* C5: no field of the item produced by the projector holds the empty string:
\* a header whose value is empty after trimming (a whitespace-only value
\* included) is skipped and contributes nothing, neither a field nor a newline
\* separator appended to an accumulated value.
C5_NoEmptyField ==
    Projected
    => /\ \A k \in DOMAIN result.out.value : result.out.value[k] # <<>>
       /\ result.out.value =
             tefEntryToItem([currentEntry EXCEPT !.headers = WithoutBlankValues(@)],
                            InitialPhrases).out.value

\* the part of C5 about empty strings alone
C5_NoEmptyString ==
    Projected => \A k \in DOMAIN result.out.value : result.out.value[k] # <<>>

----------------------------------------------------------------------------
\* the raw ID line that was projected, without its leading whitespace
Line == currentEntry.idString

Unindented == trimStart(Line)

\* the length of the non-whitespace run at the start of s
RunLength(s) ==
    CHOOSE k \in 0..Len(s) :
        /\ \A i \in 1..k : ~IsSpace(s[i])
        /\ k < Len(s) => IsSpace(s[k + 1])

\* leading whitespace, a non-whitespace run, at least one whitespace character
HasIdShape ==
    /\ RunLength(Unindented) > 0
    /\ RunLength(Unindented) < Len(Unindented)

AfterRun == trimStart(SubSeq(Unindented, RunLength(Unindented) + 1, Len(Unindented)))

\* what follows the run, its whitespace and the optional separator
Remainder ==
    IF /\ Len(AfterRun) >= 2
       /\ AfterRun[1] \in {"-", "#"}
       /\ IsSpace(AfterRun[2])
    THEN trimStart(Tail(AfterRun))
    ELSE AfterRun

OrAbsent(str) == IF str = <<>> THEN Undefined ELSE str

\* C6: if the raw ID line is optional leading whitespace, one non-whitespace
\* run, at least one whitespace character, an optional separator ('-' or '#'
\* followed by whitespace) and a remainder, the projected idString is the run
\* and title is the remainder (omitted when empty); otherwise idString is the
\* entire raw ID line unchanged and title is absent.  (Like any field, an
\* idString that would be empty is not set.)
C6_IdAndTitle ==
    Projected
    => IF HasIdShape
       THEN /\ Field(result.out.value, StrIdString) = SubSeq(Unindented, 1, RunLength(Unindented))
            /\ Field(result.out.value, StrTitle) = OrAbsent(Remainder)
       ELSE /\ Field(result.out.value, StrIdString) = OrAbsent(Line)
            /\ Field(result.out.value, StrTitle) = Undefined

\* an ID, a separator and a title
C6_Witness ==
    /\ Projected
    /\ HasIdShape
    /\ AfterRun # Remainder
    /\ Field(result.out.value, StrIdString) = <<"a">>
    /\ Field(result.out.value, StrTitle) = <<"a">>

----------------------------------------------------------------------------
\* the pieces of a stream from its i-th up to the next new-entry piece
RECURSIVE Segment(_, _)
Segment(stream, i) ==
    IF i > Len(stream) \/ stream[i].type = "new-entry" THEN <<>>
    ELSE <<stream[i]>> \o Segment(stream, i + 1)

RECURSIVE HeadersOf(_)
HeadersOf(segment) ==
    IF segment = <<>> THEN <<>>
    ELSE IF Head(segment).type = "header" THEN <<Head(segment)>> \o HeadersOf(Tail(segment))
    ELSE HeadersOf(Tail(segment))

RECURSIVE ChunksOf(_)
ChunksOf(segment) ==
    IF segment = <<>> THEN <<>>
    ELSE IF Head(segment).type = "content-chunk"
    THEN <<Head(segment).data>> \o ChunksOf(Tail(segment))
    ELSE ChunksOf(Tail(segment))

EntryOf(typeString, idString, segment) ==
    [typeString |-> typeString, idString |-> idString,
     headers |-> HeadersOf(segment), contentChunks |-> ChunksOf(segment)]

\* the entries begun in a stream: what precedes the first new-entry piece, and
\* one entry for each new-entry piece
EntriesBegun(stream) ==
    <<EntryOf(<<>>, <<>>, Segment(stream, 1))>>
    \o [j \in 1..Cardinality({i \in DOMAIN stream : stream[i].type = "new-entry"}) |->
          LET i == CHOOSE i \in DOMAIN stream :
                       /\ stream[i].type = "new-entry"
                       /\ Cardinality({h \in 1..i : stream[h].type = "new-entry"}) = j
          IN  EntryOf(stream[i].typeString, stream[i].idString, Segment(stream, i + 1))]

RECURSIVE NonEmpty(_)
NonEmpty(entries) ==
    IF entries = <<>> THEN <<>>
    ELSE IF Head(entries) = makeBlankTefEntry THEN NonEmpty(Tail(entries))
    ELSE <<Head(entries)>> \o NonEmpty(Tail(entries))

\* C4: when ingestion completes, every non-empty entry begun in the stream has
\* been emitted and projected exactly once, in stream order, the entry pending
\* at the end of the stream included.
C4_EveryEntryProjected ==
    pc = "loaded" => projected = NonEmpty(EntriesBegun(consumed))

\* what the code does projects every entry but the one pending at the end
AllButPending(entries) == SubSeq(entries, 1, Len(entries) - 1)

C4_EveryEntryButThePendingProjected ==
    pc = "loaded"
    => /\ projected = NonEmpty(AllButPending(EntriesBegun(consumed)))
       /\ currentEntry = EntriesBegun(consumed)[Len(EntriesBegun(consumed))]

----------------------------------------------------------------------------
\* C11: projecting a raw entry never fails with UnknownPhrase: for every header
\* key (any mix of letter case, dashes and spaces), the lookup of the key made
\* immediately after registerDashed(key) succeeds, in every prior state of the
\* phrase cache.
C11_LookupAfterRegisterDashedSucceeds ==
    result.op = "toCamelCase" => result.out.kind = "return"

\* the same for the keys without a dash or without an upper-case letter, which
\* addDashed stores under the key itself or under its dash-separated form
C11_LookupOfLowerCaseOrDashlessKeySucceeds ==
    (/\ result.op = "toCamelCase"
     /\ \/ \A i \in DOMAIN result.arg : result.arg[i] # "-"
        \/ result.arg = toLowerCase(result.arg))
    => result.out.kind = "return"

----------------------------------------------------------------------------
\* the characters of a relation field value (none when the field is absent)
ValueOf(arg) == IF arg = Undefined THEN <<>> ELSE arg

\* the maximal runs of characters of s that are neither commas nor whitespace,
\* as pairs of their first and last position
RunsOf(s) ==
    { r \in (1..Len(s)) \X (1..Len(s)) :
        /\ r[1] <= r[2]
        /\ \A i \in r[1]..r[2] : ~IsListSeparator(s[i])
        /\ r[1] > 1 => IsListSeparator(s[r[1] - 1])
        /\ r[2] < Len(s) => IsListSeparator(s[r[2] + 1]) }

\* the runs in the order of the string
MaximalRuns(s) ==
    [k \in 1..Cardinality(RunsOf(s)) |->
        LET r == CHOOSE r \in RunsOf(s) :
                     Cardinality({q \in RunsOf(s) : q[1] < r[1]}) = k - 1
        IN  SubSeq(s, r[1], r[2])]

ListedValue == result.op = "strToList"

\* C12: for every relation field value, idListFrom returns the ordered list of
\* the maximal runs of characters that are neither commas nor whitespace, so
\* every returned ID is non-empty (also when the value starts or ends with a
\* comma); an absent, empty or whitespace-only value yields the empty list.
C12_IdListFrom ==
    ListedValue
    => /\ result.out.value = MaximalRuns(ValueOf(result.arg))
       /\ \A i \in DOMAIN result.out.value : result.out.value[i] # <<>>
       /\ trim(ValueOf(result.arg)) = <<>> => result.out.value = <<>>

\* what the code does: the claim's list for the values that neither start nor
\* end with a comma, and one more, empty, ID for each end that has a comma
C12_IdListFromWithEmptyIdsAtOuterCommas ==
    ListedValue
    => LET s == trim(ValueOf(result.arg))
       IN  IF s = <<>> THEN result.out.value = <<>>
           ELSE result.out.value =
                   (IF s[1] = "," THEN << <<>> >> ELSE <<>>)
                   \o MaximalRuns(s)
                   \o (IF s[Len(s)] = "," THEN << <<>> >> ELSE <<>>)

----------------------------------------------------------------------------
Traversed == result.op \in {"itemIsActive", "itemIsShovelReady", "collectItemAndParentIds"}

\* C13: on every finite collection with resolvable references, one whose
\* subtaskOf relation has a cycle included, isActive, isShovelReady and
\* collectWithAncestors terminate: a traversal that revisits an item on its own
\* path fails with a CyclicRelation error instead of recursing unboundedly.
C13_TraversalsTerminate ==
    (Traversed /\ Resolvable(items))
    => \/ result.out.kind = "return"
       \/ result.out.kind = "throw" /\ result.out.message = "CyclicRelation"

\* where subtaskOf has no cycle the three traversals return
C13_TraversalsReturnWithoutCycle ==
    (Traversed /\ Resolvable(items) /\ Acyclic(items)) => result.out.kind = "return"

\* collectItemAndParentIds never ends on an item that is among its own
\* ancestors or has such an ancestor
C13_CollectOverflowsOnEveryCycle ==
    (result.op = "collectItemAndParentIds" /\ Resolvable(items))
    => (result.out.kind = "overflow"
        <=> \E id \in Ancestors(items, result.arg) \cup {result.arg} :
                id \in Ancestors(items, id))

====
